---- MODULE Spec2Model ----
\* Topology resolution of the seed emulator: Node.configure with its pending
\* network joins and cross-connects (seedemu/core/Node.py) and the automatic
\* subnet sequence of an AutonomousSystem (seedsim/core/AutonomousSystem.py).
EXTENDS Integers, Sequences, FiniteSets, TLC

\* ------------------------------------------------------------------ bounds
MaxDecl == 2        \* pending joins plus cross-connect entries of all nodes, in Spec
MaxForward == 3     \* the same, in SpecForward
MaxConfigure == 2   \* configure calls, all nodes together
MaxMix == 2         \* createNetwork calls during which explicit prefixes and reused names occur
MaxPeer == 2        \* cross-connect entries of all nodes, in SpecPeer
MaxJoin == 2        \* pending joins of all nodes, in SpecJoin
MaxSelf == 2        \* cross-connect entries of all nodes, in SpecSelf
MaxFileCalls == 4   \* getFile / setFile / appendFile calls, in SpecFiles

\* ------------------------------------------------------- the node universe
Nodes == {"n1", "n2", "n3"}

NodeName(n) == IF n = "n1" THEN "P" ELSE "Q"

NodeAsn(n) == IF n = "n1" THEN 1 ELSE 2

NodeRole(n) == IF n = "n2" THEN "hnode" ELSE "rnode"

\* the nodes the build script of Spec creates
Builders == {"n1", "n2"}

\* str(asn)
Str(a) == IF a = 1 THEN "1" ELSE "2"

\* Node.__scope: scope defaults to str(asn)
NodeScope(n) == Str(NodeAsn(n))

\* the "auto" sentinel of joinNetwork
Auto == -1

\* IPv4Network values: [base, size]; the blocks the build script gives its networks
NetPrefix(scope) == IF scope = "ix" THEN [base |-> 12, size |-> 4] ELSE [base |-> 8, size |-> 4]

NetNames == {"net0"}

\* the network names of the build scripts of SpecJoin
JoinNets == {"net0", "net1"}

\* the scopes in which the build script registers networks
NetScopes == {"1", "ix"}

\* address arguments of joinNetwork
JoinAddrs == {Auto, 9}

\* address arguments of crossConnect, IPv4Interface values [ip, size]
XCAddrs == {[ip |-> 1, size |-> 4], [ip |-> 2, size |-> 4], [ip |-> 5, size |-> 4]}

\* (peername, peerasn) arguments of crossConnect
XCKeys == {<<"P", 1>>, <<"Q", 2>>}

\* the keys under which a node cross-connects to another node
PeerKeys(n) == {k \in XCKeys : k # <<NodeName(n), NodeAsn(n)>>}

\* outcomes of ''.join(choice(ascii_letters) for i in range(10))
XCNames == {"xa", "xb"}

None == "None"

\* path arguments of getFile / setFile / appendFile
Paths == {"/a", "/b"}

\* content arguments of setFile / appendFile: strings, as sequences of characters
Contents == {<<>>, <<"x">>, <<"y", "z">>}

\* a subnet comparison that ignores the lowest bit of the network number
NetworkOfCoarse(a) == [base |-> a.ip - (a.ip % (2 * a.size)), size |-> a.size]

\* IPv4Interface.network
NetworkOf(a) == [base |-> a.ip - (a.ip % a.size), size |-> a.size]

\* addresses inside a block
InCidr(ip, p) == ip >= p.base /\ ip < p.base + p.size

\* host addresses of a block (network and broadcast address excluded)
Hosts(p) == {i \in (p.base + 1)..(p.base + p.size - 2) : TRUE}

Min(S) == CHOOSE x \in S : \A y \in S : x <= y

\* ------------------------------------------------------ AutonomousSystem
\* "10.{}.0.0/16": first octet and prefix length of the block of an AS
BlockOctet == 10

BlockLen == 16

\* subnets(new_prefix = 24)
SubnetLen == 24

\* an AS constructor and createNetwork that take every 16-bit asn for auto
AutoAsnLimitWide == 2 ^ 16 - 1

\* asn > 255 has no subnet generator
AutoAsnLimit == 255

\* IPv4Network of a dotted quad and a prefix length
Cidr(a, b, c, d, len) == [base |-> ((a * 256 + b) * 256 + c) * 256 + d, len |-> len]

\* IPv4Network("10.{}.0.0/16".format(asn))
ASBlock(a) == Cidr(BlockOctet, a, 0, 0, BlockLen)

\* a subnet sequence that runs one block past the end of the /16
NumSubnetsOffByOne(block, new_prefix) == 2 ^ (new_prefix - block.len) + 1

\* number of subnets IPv4Network.subnets(new_prefix) yields
NumSubnets(block, new_prefix) == 2 ^ (new_prefix - block.len)

\* a subnet sequence that skips the first block
SubnetOffByOne(block, new_prefix, i) ==
    [base |-> block.base + (i + 1) * 2 ^ (32 - new_prefix), len |-> new_prefix]

\* the i-th subnet (from 0) that IPv4Network.subnets(new_prefix) yields
Subnet(block, new_prefix, i) == [base |-> block.base + i * 2 ^ (32 - new_prefix), len |-> new_prefix]

\* the AS numbers of the systems constructed
ASNs == {5, 255, 256}

\* explicit prefix arguments of createNetwork
ExplicitPrefixes == {Cidr(10, 5, 0, 0, 24), Cidr(100, 64, 0, 0, 24)}

VARIABLES
    regNodes,       \* registry entries of type rnode / hnode
    regNets,        \* registry entries of type net: <<scope, name>> -> Network
    interfaces,     \* Node.__interfaces
    pending_nets,   \* Node.__pending_nets
    xcs,            \* Node.__xcs, in insertion order
    configured,     \* Node.__configured
    calls,          \* history: configure calls made on each node
    done,           \* history: some configure call on the node ran to the end
    last,           \* history: the last configure call and its outcome
    declared,       \* history: the outcome of the last joinNetwork / crossConnect call
    asn,            \* AutonomousSystem.__asn
    subnet_generator, \* AutonomousSystem.__subnet_generator: subnets already yielded, -1 for None
    asReg,          \* AutonomousSystem.__reg: name -> IPv4Network
    autoCalls,      \* history: createNetwork("auto") calls made on an AS with asn <= 255
    asCalls,        \* history: createNetwork calls
    asLast,         \* history: the last createNetwork call and its outcome
    files,          \* Node.__files: path -> the File object stored for it
    heap,           \* the File objects created so far: [path, content]
    fileCalls,      \* history: getFile / setFile / appendFile calls
    fileLast        \* history: the last such call and what getFile returned

nodeVars == <<regNodes, regNets, interfaces, pending_nets, xcs, configured, calls, done, last, declared>>

asVars == <<asn, subnet_generator, asReg, autoCalls, asCalls, asLast>>

fileVars == <<files, heap, fileCalls, fileLast>>

vars == <<nodeVars, asVars, fileVars>>

\* ---------------------------------------------------------------- registry
\* Registry.has(scope, type, name) for nodes
HasNode(scope, type, name) ==
    \E m \in regNodes : NodeScope(m) = scope /\ NodeRole(m) = type /\ NodeName(m) = name

\* Registry.get(scope, type, name) for nodes
GetNode(scope, type, name) ==
    CHOOSE m \in regNodes : NodeScope(m) = scope /\ NodeRole(m) = type /\ NodeName(m) = name

\* Registry.has(scope, "net", name)
HasNet(nets, scope, name) == <<scope, name>> \in DOMAIN nets

\* Network(name, type, prefix)
Network(type, prefix, pair) ==
    [type |-> type, prefix |-> prefix, assigned |-> {}, nodes |-> {}, pair |-> pair]

\* Registry.register(scope, "net", name, net)
RegisterNetIn(nets, scope, name, net) ==
    [k \in DOMAIN nets \cup {<<scope, name>>} |-> IF k = <<scope, name>> THEN net ELSE nets[k]]

\* ------------------------------------------------------------ Node helpers
\* position of a key in the insertion-ordered dict Node.__xcs, 0 when absent
XcIndex(d, key) ==
    IF \E i \in 1..Len(d) : d[i].key = key
    THEN CHOOSE i \in 1..Len(d) : d[i].key = key
    ELSE 0

\* Network.assign(role, asn): the next unused host address of the block
Assign(net) == Min(Hosts(net.prefix) \ net.assigned)

\* Node.__joinNetwork(net, address), on the state threaded through configure
joinNetworkPriv(st, n, id, address) ==
    LET net == st.nets[id]
    IN  IF address = Auto /\ Hosts(net.prefix) \ net.assigned = {}
        THEN [st EXCEPT !.err = "AddressExhausted"]
        ELSE LET a == IF address = Auto THEN Assign(net) ELSE address
                 net2 == [net EXCEPT !.assigned = IF address = Auto THEN @ \cup {a} ELSE @,
                                     !.nodes = @ \cup {n}]
             IN  [st EXCEPT !.ifs = Append(@, [net |-> id, address |-> a]),
                            !.nets = [@ EXCEPT ![id] = net2]]

\* a resolution that looks in the "ix" scope first
ResolveScopeIxFirst(nets, n, netname) ==
    IF HasNet(nets, "ix", netname) THEN "ix"
    ELSE IF HasNet(nets, NodeScope(n), netname) THEN NodeScope(n)
    ELSE None

\* the scope in which configure resolves a pending join: own scope, then "ix"
ResolveScope(nets, n, netname) ==
    IF HasNet(nets, NodeScope(n), netname) THEN NodeScope(n)
    ELSE IF HasNet(nets, "ix", netname) THEN "ix"
    ELSE None

\* a first loop that passes over a pending join whose network is not registered
RECURSIVE ConfigureNetsSkipping(_, _, _)
ConfigureNetsSkipping(st, n, i) ==
    IF st.err # "ok" \/ i > Len(pending_nets[n]) THEN st
    ELSE LET netname == pending_nets[n][i][1]
             address == pending_nets[n][i][2]
             scope == ResolveScope(st.nets, n, netname)
         IN  IF scope = None THEN ConfigureNetsSkipping(st, n, i + 1)
             ELSE ConfigureNetsSkipping(joinNetworkPriv(st, n, <<scope, netname>>, address), n, i + 1)

\* Node.configure, first loop: for (netname, address) in self.__pending_nets
RECURSIVE ConfigureNets(_, _, _)
ConfigureNets(st, n, i) ==
    IF st.err # "ok" \/ i > Len(pending_nets[n]) THEN st
    ELSE LET netname == pending_nets[n][i][1]
             address == pending_nets[n][i][2]
             scope == ResolveScope(st.nets, n, netname)
         IN  IF scope = None THEN [st EXCEPT !.err = "NetworkNotFound"]
             ELSE ConfigureNets(joinNetworkPriv(st, n, <<scope, netname>>, address), n, i + 1)

\* the peer lookup of configure: rnode first, then hnode
HasPeer(peername, peerasn) ==
    HasNode(Str(peerasn), "rnode", peername) \/ HasNode(Str(peerasn), "hnode", peername)

\* a peer lookup that prefers the host-node
GetPeerHostFirst(peername, peerasn) ==
    IF HasNode(Str(peerasn), "hnode", peername)
    THEN GetNode(Str(peerasn), "hnode", peername)
    ELSE GetNode(Str(peerasn), "rnode", peername)

GetPeer(peername, peerasn) ==
    IF HasNode(Str(peerasn), "rnode", peername)
    THEN GetNode(Str(peerasn), "rnode", peername)
    ELSE GetNode(Str(peerasn), "hnode", peername)

\* getCrossConnect answering with the tuple as crossConnect first stored it
getCrossConnectStale(d, peerasn, peername) ==
    [d[XcIndex(d, <<peername, peerasn>>)] EXCEPT !.netname = None]

\* Node.getCrossConnect(peerasn, peername) on the dict d of the node asked:
\* the entry recorded for that peer (the caller checks that there is one)
getCrossConnect(d, peerasn, peername) == d[XcIndex(d, <<peername, peerasn>>)]

\* a registry in which register replaces the entry of a key in use
RegisterFailsNever(nets, scope, name) == FALSE

\* Registry.register refuses a key that is registered already
RegisterFails(nets, scope, name) == HasNet(nets, scope, name)

\* a binding that lets the network pick the address of the interface
BindXcAssigned(st, n, lidx, peer, netname, name) ==
    LET localaddr == st.xcs[n][lidx].addr
    IN  IF netname # None
        THEN LET j == joinNetworkPriv(st, n, <<"xc", netname>>, Auto)
             IN  [j EXCEPT !.xcs[n][lidx].netname = netname]
        ELSE IF RegisterFails(st.nets, "xc", name) THEN [st EXCEPT !.err = "RegisterConflict"]
        ELSE LET net == Network("CrossConnect", NetworkOf(localaddr), {n, peer})
                 r == [st EXCEPT !.nets = RegisterNetIn(@, "xc", name, net)]
                 j == joinNetworkPriv(r, n, <<"xc", name>>, Auto)
             IN  [j EXCEPT !.xcs[n][lidx].netname = name]

\* the end of an iteration of the second loop of configure: join the network
\* the peer recorded, or create one under the random name and record it
BindXc(st, n, lidx, peer, netname, name) ==
    LET localaddr == st.xcs[n][lidx].addr
    IN  IF netname # None
        THEN LET j == joinNetworkPriv(st, n, <<"xc", netname>>, localaddr.ip)
             IN  [j EXCEPT !.xcs[n][lidx].netname = netname]
        ELSE IF RegisterFails(st.nets, "xc", name) THEN [st EXCEPT !.err = "RegisterConflict"]
        ELSE LET net == Network("CrossConnect", NetworkOf(localaddr), {n, peer})
                 r == [st EXCEPT !.nets = RegisterNetIn(@, "xc", name, net)]
                 j == joinNetworkPriv(r, n, <<"xc", name>>, localaddr.ip)
             IN  [j EXCEPT !.xcs[n][lidx].netname = name]

\* an iteration that does not ask the peer for the reverse declaration
ConfigureXcOneSided(st, n, key, name) ==
    IF ~HasPeer(key[1], key[2]) THEN [st EXCEPT !.err = "PeerNotFound"]
    ELSE
    LET peer == GetPeer(key[1], key[2])
        pidx == XcIndex(st.xcs[peer], <<NodeName(n), NodeAsn(n)>>)
        lidx == XcIndex(st.xcs[n], key)
        localaddr == st.xcs[n][lidx].addr
    IN  IF pidx = 0 THEN BindXc(st, n, lidx, peer, None, name)
        ELSE
        LET peeraddr == getCrossConnect(st.xcs[peer], NodeAsn(n), NodeName(n)).addr
            netname == getCrossConnect(st.xcs[peer], NodeAsn(n), NodeName(n)).netname
        IN  IF NetworkOf(localaddr) # NetworkOf(peeraddr) THEN [st EXCEPT !.err = "SubnetMismatch"]
            ELSE BindXc(st, n, lidx, peer, netname, name)

\* one iteration of the second loop of configure, for the key at position i
ConfigureXc(st, n, key, name) ==
    IF ~HasPeer(key[1], key[2]) THEN [st EXCEPT !.err = "PeerNotFound"]
    ELSE
    LET peer == GetPeer(key[1], key[2])
        pidx == XcIndex(st.xcs[peer], <<NodeName(n), NodeAsn(n)>>)
        lidx == XcIndex(st.xcs[n], key)
        localaddr == st.xcs[n][lidx].addr
    IN  IF pidx = 0 THEN [st EXCEPT !.err = "PeerHasNoMatchingXC"]
        ELSE
        LET peeraddr == getCrossConnect(st.xcs[peer], NodeAsn(n), NodeName(n)).addr
            netname == getCrossConnect(st.xcs[peer], NodeAsn(n), NodeName(n)).netname
        IN  IF NetworkOf(localaddr) # NetworkOf(peeraddr) THEN [st EXCEPT !.err = "SubnetMismatch"]
            ELSE BindXc(st, n, lidx, peer, netname, name)

\* Node.configure, second loop: for (peername, peerasn) in list(self.__xcs.keys())
RECURSIVE ConfigureXcs(_, _, _, _, _)
ConfigureXcs(st, n, keys, i, names) ==
    IF st.err # "ok" \/ i > Len(keys) THEN st
    ELSE ConfigureXcs(ConfigureXc(st, n, keys[i], names[i]), n, keys, i + 1, names)

\* the state configure leaves behind, names being the random names it draws
ConfigureResult(n, names) ==
    LET st0 == [ifs |-> interfaces[n], nets |-> regNets, xcs |-> xcs, err |-> "ok"]
        keys == [i \in 1..Len(xcs[n]) |-> xcs[n][i].key]
    IN  ConfigureXcs(ConfigureNets(st0, n, 1), n, keys, 1, names)

\* pending joins and cross-connect entries of all nodes
RECURSIVE DeclSizeOf(_)
DeclSizeOf(S) ==
    IF S = {} THEN 0
    ELSE LET n == CHOOSE x \in S : TRUE
         IN  Len(pending_nets[n]) + Len(xcs[n]) + DeclSizeOf(S \ {n})

DeclSize == DeclSizeOf(Nodes)

\* configure calls made on all nodes
RECURSIVE CallsOf(_)
CallsOf(S) ==
    IF S = {} THEN 0
    ELSE LET n == CHOOSE x \in S : TRUE
         IN  calls[n] + CallsOf(S \ {n})

TotalCalls == CallsOf(Nodes)

\* in Python an int never equals a str: peerasn != self.getName()
AsnDiffersFromName(peerasn, name) == TRUE

\* ------------------------------------------------------------------- Init
\* Node.__init__ for every node, and an empty registry
NodeInit ==
    /\ regNodes = {}
    /\ regNets = <<>>
    /\ interfaces = [n \in Nodes |-> <<>>]
    /\ pending_nets = [n \in Nodes |-> <<>>]
    /\ xcs = [n \in Nodes |-> <<>>]
    /\ configured = [n \in Nodes |-> FALSE]
    /\ calls = [n \in Nodes |-> 0]
    /\ done = [n \in Nodes |-> FALSE]
    /\ last = [node |-> None, outcome |-> None]
    /\ declared = "ok"
    /\ files = [n \in Nodes |-> <<>>]
    /\ heap = <<>>
    /\ fileCalls = 0
    /\ fileLast = [node |-> None, op |-> None, path |-> None, arg |-> <<>>, ret |-> 0]

\* AutonomousSystem.__init__(asn)
ASInit(a) ==
    /\ asn = a
    /\ subnet_generator = IF a > AutoAsnLimit THEN -1 ELSE 0
    /\ asReg = <<>>
    /\ autoCalls = 0
    /\ asCalls = 0
    /\ asLast = [auto |-> FALSE, name |-> 0, outcome |-> None]

Init == NodeInit /\ ASInit(5)

InitAS == NodeInit /\ \E a \in ASNs : ASInit(a)

\* ---------------------------------------------------------------- actions
\* the build script registers a node: reg.register(str(asn), role, name, node)
RegisterNode(n) ==
    /\ n \notin regNodes
    /\ regNodes' = regNodes \cup {n}
    /\ UNCHANGED <<last, declared, regNets, interfaces, pending_nets, xcs, configured, calls, done, asVars, fileVars>>

\* the build script registers a network in an AS scope or the "ix" scope
RegisterNet(scope, name) ==
    /\ ~HasNet(regNets, scope, name)
    /\ regNets' = RegisterNetIn(regNets, scope, name,
                     Network(IF scope = "ix" THEN "InternetExchange" ELSE "Local", NetPrefix(scope), {}))
    /\ UNCHANGED <<last, declared, regNodes, interfaces, pending_nets, xcs, configured, calls, done, asVars, fileVars>>

\* a joinNetwork that resolves the network at once and refuses unknown names
joinNetworkEager(n, netname, address) ==
    /\ IF ~HasNet(regNets, NodeScope(n), netname) /\ ~HasNet(regNets, "ix", netname)
       THEN /\ declared' = "NetworkNotFound"
            /\ UNCHANGED pending_nets
       ELSE /\ pending_nets' = [pending_nets EXCEPT ![n] = Append(@, <<netname, address>>)]
            /\ declared' = "ok"
    /\ UNCHANGED <<last, regNodes, regNets, interfaces, xcs, configured, calls, done, asVars, fileVars>>

\* Node.joinNetwork(netname, address)
joinNetwork(n, netname, address) ==
    /\ IF configured[n]
       THEN /\ declared' = "AlreadyConfigured"
            /\ UNCHANGED pending_nets
       ELSE /\ pending_nets' = [pending_nets EXCEPT ![n] = Append(@, <<netname, address>>)]
            /\ declared' = "ok"
    /\ UNCHANGED <<last, regNodes, regNets, interfaces, xcs, configured, calls, done, asVars, fileVars>>

\* Node.crossConnect(peerasn, peername, address)
crossConnect(n, peerasn, peername, address) ==
    LET key == <<peername, peerasn>>
        idx == XcIndex(xcs[n], key)
        entry == [key |-> key, addr |-> address, netname |-> None]
    IN  /\ IF ~(peername # NodeName(n) \/ AsnDiffersFromName(peerasn, NodeName(n)))
           THEN /\ declared' = "SelfCrossConnect"
                /\ UNCHANGED xcs
           ELSE /\ xcs' = [xcs EXCEPT ![n] = IF idx = 0 THEN Append(@, entry)
                                             ELSE [@ EXCEPT ![idx] = entry]]
                /\ declared' = "ok"
        /\ UNCHANGED <<last, regNodes, regNets, interfaces, pending_nets, configured, calls, done, asVars, fileVars>>

\* Node.configure(emulator)
configure(n) ==
    /\ calls' = [calls EXCEPT ![n] = @ + 1]
    /\ IF configured[n]
       THEN /\ last' = [node |-> n, outcome |-> "AlreadyConfigured"]
            /\ UNCHANGED <<regNets, interfaces, xcs, done>>
       ELSE \E names \in [1..Len(xcs[n]) -> XCNames] :
            LET r == ConfigureResult(n, names)
            IN  /\ interfaces' = [interfaces EXCEPT ![n] = r.ifs]
                /\ regNets' = r.nets
                /\ xcs' = r.xcs
                /\ done' = [done EXCEPT ![n] = @ \/ r.err = "ok"]
                /\ last' = [node |-> n, outcome |-> r.err]
    /\ UNCHANGED <<declared, regNodes, pending_nets, configured, asVars, fileVars>>

\* a createNetwork that draws from the subnet sequence for explicit prefixes too
createNetworkDrawing(name, auto, prefix) ==
    /\ asCalls' = asCalls + 1
    /\ autoCalls' = IF auto THEN autoCalls + 1 ELSE autoCalls
    /\ IF auto /\ ~(asn <= AutoAsnLimit)
       THEN /\ asLast' = [auto |-> auto, name |-> name, outcome |-> "AutoSubnetUnavailable"]
            /\ UNCHANGED <<subnet_generator, asReg>>
       ELSE IF auto /\ subnet_generator >= NumSubnets(ASBlock(asn), SubnetLen)
       THEN /\ asLast' = [auto |-> auto, name |-> name, outcome |-> "SubnetExhausted"]
            /\ UNCHANGED <<subnet_generator, asReg>>
       ELSE LET network == IF auto THEN Subnet(ASBlock(asn), SubnetLen, subnet_generator) ELSE prefix
            IN  /\ subnet_generator' = IF auto \/ subnet_generator >= 0
                                       THEN subnet_generator + 1 ELSE subnet_generator
                /\ IF name \in DOMAIN asReg
                   THEN /\ asLast' = [auto |-> auto, name |-> name, outcome |-> "RegisterConflict"]
                        /\ UNCHANGED asReg
                   ELSE /\ asReg' = [k \in DOMAIN asReg \cup {name} |->
                                        IF k = name THEN [type |-> "Local", prefix |-> network] ELSE asReg[k]]
                        /\ asLast' = [auto |-> auto, name |-> name, outcome |-> "ok"]
    /\ UNCHANGED <<asn, nodeVars, fileVars>>

\* AutonomousSystem.createNetwork(name, prefix); auto stands for prefix = "auto"
createNetwork(name, auto, prefix) ==
    /\ asCalls' = asCalls + 1
    /\ autoCalls' = IF auto THEN autoCalls + 1 ELSE autoCalls
    /\ IF auto /\ ~(asn <= AutoAsnLimit)
       THEN /\ asLast' = [auto |-> auto, name |-> name, outcome |-> "AutoSubnetUnavailable"]
            /\ UNCHANGED <<subnet_generator, asReg>>
       ELSE IF auto /\ subnet_generator >= NumSubnets(ASBlock(asn), SubnetLen)
       THEN /\ asLast' = [auto |-> auto, name |-> name, outcome |-> "SubnetExhausted"]
            /\ UNCHANGED <<subnet_generator, asReg>>
       ELSE LET network == IF auto THEN Subnet(ASBlock(asn), SubnetLen, subnet_generator) ELSE prefix
            IN  /\ subnet_generator' = IF auto THEN subnet_generator + 1 ELSE subnet_generator
                /\ IF name \in DOMAIN asReg
                   THEN /\ asLast' = [auto |-> auto, name |-> name, outcome |-> "RegisterConflict"]
                        /\ UNCHANGED asReg
                   ELSE /\ asReg' = [k \in DOMAIN asReg \cup {name} |->
                                        IF k = name THEN [type |-> "Local", prefix |-> network] ELSE asReg[k]]
                        /\ asLast' = [auto |-> auto, name |-> name, outcome |-> "ok"]
    /\ UNCHANGED <<asn, nodeVars, fileVars>>

\* createNetwork(name) with a name that is not registered yet
CreateAuto ==
    /\ autoCalls < NumSubnets(ASBlock(asn), SubnetLen) + 2
    /\ asn > AutoAsnLimit => asCalls < MaxMix + 2
    /\ createNetwork(Len(asReg) + 1, TRUE, None)

\* createNetwork(name, prefix) with an explicit prefix
CreateExplicit ==
    /\ asCalls < MaxMix
    /\ \E prefix \in ExplicitPrefixes : createNetwork(Len(asReg) + 1, FALSE, prefix)

\* createNetwork with the name of a network created before
CreateAgain ==
    /\ asCalls < MaxMix
    /\ asReg # <<>>
    /\ \/ createNetwork(1, TRUE, None)
       \/ \E prefix \in ExplicitPrefixes : createNetwork(1, FALSE, prefix)

NextAS == CreateAuto \/ CreateExplicit \/ CreateAgain

SpecAS == InitAS /\ [][NextAS]_vars

\* File(path): a new object, with content ''
File(path) == [path |-> path, content |-> <<>>]

\* the state getFile(path) leaves behind: the dict and the objects
getFileFiles(n, path) ==
    IF path \in DOMAIN files[n] THEN files[n]
    ELSE [p \in DOMAIN files[n] \cup {path} |-> IF p = path THEN Len(heap) + 1 ELSE files[n][p]]

getFileHeap(n, path) == IF path \in DOMAIN files[n] THEN heap ELSE Append(heap, File(path))

\* File.setContent(content)
setContent(old, content) == content

\* an appendContent that drops what the file held
appendContentReplaces(old, content) == content

\* File.appendContent(content)
appendContent(old, content) == old \o content

\* Node.getFile(path)
getFile(n, path) ==
    /\ files' = [files EXCEPT ![n] = getFileFiles(n, path)]
    /\ heap' = getFileHeap(n, path)
    /\ fileCalls' = fileCalls + 1
    /\ fileLast' = [node |-> n, op |-> "getFile", path |-> path, arg |-> <<>>,
                    ret |-> getFileFiles(n, path)[path]]
    /\ UNCHANGED <<nodeVars, asVars>>

\* Node.setFile(path, content)
setFile(n, path, content) ==
    LET f == getFileFiles(n, path)[path]
    IN  /\ files' = [files EXCEPT ![n] = getFileFiles(n, path)]
        /\ heap' = [getFileHeap(n, path) EXCEPT ![f].content = setContent(@, content)]
        /\ fileCalls' = fileCalls + 1
        /\ fileLast' = [node |-> n, op |-> "setFile", path |-> path, arg |-> content, ret |-> 0]
        /\ UNCHANGED <<nodeVars, asVars>>

\* Node.appendFile(path, content)
appendFile(n, path, content) ==
    LET f == getFileFiles(n, path)[path]
    IN  /\ files' = [files EXCEPT ![n] = getFileFiles(n, path)]
        /\ heap' = [getFileHeap(n, path) EXCEPT ![f].content = appendContent(@, content)]
        /\ fileCalls' = fileCalls + 1
        /\ fileLast' = [node |-> n, op |-> "appendFile", path |-> path, arg |-> content, ret |-> 0]
        /\ UNCHANGED <<nodeVars, asVars>>

\* the file calls a build script makes on a node
NextFiles ==
    \/ \E n \in Builders, path \in Paths : fileCalls < MaxFileCalls /\ getFile(n, path)
    \/ \E n \in Builders, path \in Paths, content \in Contents :
           fileCalls < MaxFileCalls /\ setFile(n, path, content)
    \/ \E n \in Builders, path \in Paths, content \in Contents :
           fileCalls < MaxFileCalls /\ appendFile(n, path, content)

SpecFiles == Init /\ [][NextFiles]_vars

\* room for one more declaration: a new pending join or cross-connect entry
Room(max) == DeclSize < max

\* room for crossConnect(n, peerasn, peername, ...), which replaces an entry it finds
RoomFor(max, n, key) == XcIndex(xcs[n], key) = 0 => Room(max)

Next ==
    \/ \E n \in Builders : RegisterNode(n)
    \/ \E scope \in NetScopes, name \in NetNames : RegisterNet(scope, name)
    \/ \E n \in Builders, netname \in NetNames, address \in JoinAddrs :
           Room(MaxDecl) /\ joinNetwork(n, netname, address)
    \/ \E n \in Builders : \E key \in PeerKeys(n), address \in XCAddrs :
           RoomFor(MaxDecl, n, key) /\ crossConnect(n, key[2], key[1], address)
    \/ \E n \in Builders : TotalCalls < MaxConfigure /\ configure(n)

Spec == Init /\ [][Next]_vars

\* the same build scripts as Spec, with every joinNetwork / crossConnect call
\* made before anything is registered
NextForward ==
    \/ \E n \in Builders, netname \in NetNames, address \in JoinAddrs :
           /\ regNodes = {} /\ regNets = <<>> /\ Room(MaxForward)
           /\ joinNetwork(n, netname, address)
    \/ \E n \in Builders : \E key \in PeerKeys(n), address \in XCAddrs :
           /\ regNodes = {} /\ regNets = <<>> /\ RoomFor(MaxForward, n, key)
           /\ crossConnect(n, key[2], key[1], address)
    \/ \E n \in Builders : DeclSize > 0 /\ RegisterNode(n)
    \/ \E scope \in NetScopes, name \in NetNames : DeclSize > 0 /\ RegisterNet(scope, name)
    \/ \E n \in Builders : TotalCalls < MaxConfigure /\ configure(n)

SpecForward == Init /\ [][NextForward]_vars

\* build scripts with a router-node and a host-node of the same name in one AS
NextPeer ==
    \/ \E n \in Nodes : RegisterNode(n)
    \/ \E n \in Nodes : \E key \in PeerKeys(n), address \in XCAddrs :
           RoomFor(MaxPeer, n, key) /\ crossConnect(n, key[2], key[1], address)
    \/ \E n \in Nodes : TotalCalls < MaxConfigure /\ configure(n)

SpecPeer == Init /\ [][NextPeer]_vars

\* build scripts that register and join networks of two names
NextJoin ==
    \/ \E scope \in NetScopes, name \in JoinNets : RegisterNet(scope, name)
    \/ \E n \in Builders, netname \in JoinNets, address \in JoinAddrs :
           Room(MaxJoin) /\ joinNetwork(n, netname, address)
    \/ \E n \in Builders : TotalCalls < MaxConfigure /\ configure(n)

SpecJoin == Init /\ [][NextJoin]_vars

\* build scripts whose crossConnect calls may name the node itself
NextSelf ==
    \/ \E n \in Builders : RegisterNode(n)
    \/ \E n \in Builders : \E key \in XCKeys, address \in XCAddrs :
           RoomFor(MaxSelf, n, key) /\ crossConnect(n, key[2], key[1], address)
    \/ \E n \in Builders : TotalCalls < MaxConfigure /\ configure(n)

SpecSelf == Init /\ [][NextSelf]_vars

\* ------------------------------------------------------------ properties
\* the cross-connect networks registered for a pair of nodes
PairNets(a, b) == {id \in DOMAIN regNets : id[1] = "xc" /\ regNets[id].pair = {a, b}}

\* the interfaces of a node on the cross-connect networks of a pair
PairIfaces(n, a, b) == {i \in DOMAIN interfaces[n] : interfaces[n][i].net \in PairNets(a, b)}

\* the entry a node recorded for its peer b
XcEntry(a, b) == xcs[a][XcIndex(xcs[a], <<NodeName(b), NodeAsn(b)>>)]

\* a and b declared each other, each was configured by one call that ran to
\* the end, and both bindings are resolved
BothConfigured(a, b) ==
    /\ a # b
    /\ calls[a] = 1 /\ calls[b] = 1 /\ done[a] /\ done[b]
    /\ XcIndex(xcs[a], <<NodeName(b), NodeAsn(b)>>) # 0
    /\ XcIndex(xcs[b], <<NodeName(a), NodeAsn(a)>>) # 0
    /\ XcEntry(a, b).netname # None
    /\ XcEntry(b, a).netname # None

\* C1: when two nodes declared a cross-connect to each other and each was
\* configured once, in either order, exactly one CrossConnect network is
\* registered for the pair and each node has exactly one interface on it.
C1_OneSharedNetwork ==
    \A a, b \in Nodes :
        BothConfigured(a, b) =>
            /\ Cardinality(PairNets(a, b)) = 1
            /\ Cardinality(PairIfaces(a, a, b)) = 1
            /\ Cardinality(PairIfaces(b, a, b)) = 1
            /\ XcEntry(a, b).netname = XcEntry(b, a).netname
            /\ <<"xc", XcEntry(a, b).netname>> \in PairNets(a, b)

\* n1 was configured first, n2 second, and they share the network
C1_Witness ==
    /\ BothConfigured("n1", "n2")
    /\ last.node = "n2"
    /\ XcEntry("n1", "n2").addr.ip # XcEntry("n2", "n1").addr.ip

\* C2: a configure call on a node whose earlier configure call ran to the end
\* fails with AlreadyConfigured and changes no interface, pending binding or
\* network.
C2_SecondConfigureFails ==
    [][\A n \in Nodes :
          (done[n] /\ calls'[n] = calls[n] + 1) =>
              /\ last'.outcome = "AlreadyConfigured"
              /\ interfaces' = interfaces
              /\ pending_nets' = pending_nets
              /\ xcs' = xcs
              /\ regNets' = regNets]_vars

\* C3: no two interfaces attached to the same network carry the same address.
C3_AddressesUnique ==
    \A n, m \in Nodes : \A i \in DOMAIN interfaces[n], j \in DOMAIN interfaces[m] :
        (/\ interfaces[n][i].net = interfaces[m][j].net
         /\ interfaces[n][i].address = interfaces[m][j].address)
        => (n = m /\ i = j)

\* C4: the address of every interface lies in the CIDR block of its network.
C4_AddressesInCidr ==
    \A n \in Nodes : \A i \in DOMAIN interfaces[n] :
        InCidr(interfaces[n][i].address, regNets[interfaces[n][i].net].prefix)

\* C8: the interface configure creates for the i-th pending join is attached to
\* the own-scope network of that name when there is one, and to the "ix"
\* network only when the own scope has none; one interface per join.
C8_OwnScopeFirst ==
    [][\A n \in Nodes :
          calls'[n] = calls[n] + 1 =>
              /\ \A i \in 1..Len(pending_nets[n]) :
                     Len(interfaces'[n]) >= Len(interfaces[n]) + i =>
                         interfaces'[n][Len(interfaces[n]) + i].net =
                             IF <<NodeScope(n), pending_nets[n][i][1]>> \in DOMAIN regNets
                             THEN <<NodeScope(n), pending_nets[n][i][1]>>
                             ELSE <<"ix", pending_nets[n][i][1]>>
              /\ last'.outcome = "ok" =>
                     Len(interfaces'[n]) = Len(interfaces[n]) + Len(pending_nets[n]) + Len(xcs[n])]_vars

\* n2 joined the "ix" network before n1 was configured by its only call, which
\* joined the network of that name in n1's own scope
C8_Witness ==
    /\ last = [node |-> "n1", outcome |-> "ok"]
    /\ calls["n1"] = 1
    /\ <<"ix", "net0">> \in DOMAIN regNets
    /\ <<"1", "net0">> \in DOMAIN regNets
    /\ "n2" \in regNets[<<"ix", "net0">>].nodes
    /\ Len(pending_nets["n1"]) = 1
    /\ Len(interfaces["n1"]) = 1
    /\ interfaces["n1"][1].net = <<"1", "net0">>

\* C9: once a configure call on a node ran to the end, a joinNetwork call on
\* that node fails and leaves its pending joins and interfaces as they are.
C9_NoJoinAfterConfigure ==
    [][\A n \in Nodes :
          (done[n] /\ calls' = calls) =>
              /\ pending_nets'[n] = pending_nets[n]
              /\ interfaces'[n] = interfaces[n]]_vars

C5_AutoSubnetSequence ==
    (asn <= 255 /\ asLast.auto /\ autoCalls \in 1..256) =>
        /\ asLast.outcome \in {"ok", "RegisterConflict"}
        /\ asLast.outcome = "ok" =>
               asReg[asLast.name].prefix = Cidr(10, asn, autoCalls - 1, 0, 24)

\* the 256th auto network of AS 255 was created
C5_Witness ==
    /\ asn = 255
    /\ asLast = [auto |-> TRUE, name |-> asLast.name, outcome |-> "ok"]
    /\ autoCalls = 256
    /\ asReg[asLast.name].prefix = Cidr(10, 255, 255, 0, 24)

\* C6: on an AS with asn <= 255, every createNetwork call with prefix "auto"
\* made after 256 such calls fails with SubnetExhausted and registers nothing.
C6_SubnetExhausted ==
    [][(asn <= 255 /\ autoCalls >= 256 /\ autoCalls' = autoCalls + 1) =>
           /\ asLast'.outcome = "SubnetExhausted"
           /\ asReg' = asReg
           /\ subnet_generator' = subnet_generator]_vars

\* the 257th and the 258th auto call were refused
C6_Witness ==
    /\ asn <= 255
    /\ autoCalls = 258
    /\ asLast.auto
    /\ asLast.outcome = "SubnetExhausted"
    /\ Len(asReg) >= 256

\* C7: on an AS with asn > 255 a createNetwork call with prefix "auto" fails
\* with AutoSubnetUnavailable and registers nothing, and a call with an
\* explicit CIDR and an unused name registers the network.
C7_AutoUnavailable ==
    [][(asn > 255 /\ asCalls' = asCalls + 1) =>
           IF asLast'.auto
           THEN /\ asLast'.outcome = "AutoSubnetUnavailable"
                /\ asReg' = asReg
                /\ subnet_generator' = subnet_generator
           ELSE asLast'.name \notin DOMAIN asReg =>
                    /\ asLast'.outcome = "ok"
                    /\ DOMAIN asReg' = DOMAIN asReg \cup {asLast'.name}
                    /\ asReg'[asLast'.name].prefix \in ExplicitPrefixes]_vars

\* AS 256 created a network with an explicit CIDR, then was refused an auto one
C7_Witness ==
    /\ asn = 256
    /\ Len(asReg) = 1
    /\ asLast.auto
    /\ asLast.outcome = "AutoSubnetUnavailable"


\* C11: a configure call either resolves every pending join and cross-connect
\* of the node into an interface, or fails and leaves the node without any
\* interface, address assignment or network of that call.
C11_NoPartialSuccess ==
    [][\A n \in Nodes :
          calls'[n] = calls[n] + 1 =>
              \/ /\ last'.outcome = "ok"
                 /\ Len(interfaces'[n]) = Len(interfaces[n]) + Len(pending_nets[n]) + Len(xcs[n])
              \/ /\ last'.outcome # "ok"
                 /\ interfaces' = interfaces
                 /\ regNets' = regNets
                 /\ xcs' = xcs]_vars


\* C16: a network name recorded in a cross-connect binding is never reset or
\* changed by a configure step, and once both ends of a cross-connect are
\* configured their bindings record the same name, registered in scope "xc".
C16_RecordedNameStable ==
    [][\A n \in Nodes :
          calls'[n] = calls[n] + 1 =>
              /\ \A m \in Nodes : \A i \in 1..Len(xcs[m]) :
                     xcs[m][i].netname # None => xcs'[m][i].netname = xcs[m][i].netname
              /\ \A a, b \in Nodes :
                     (/\ a # b /\ done'[a] /\ done'[b]
                      /\ XcIndex(xcs'[a], <<NodeName(b), NodeAsn(b)>>) # 0
                      /\ XcIndex(xcs'[b], <<NodeName(a), NodeAsn(a)>>) # 0
                      /\ {a, b} \subseteq regNodes)
                     => LET ea == xcs'[a][XcIndex(xcs'[a], <<NodeName(b), NodeAsn(b)>>)]
                            eb == xcs'[b][XcIndex(xcs'[b], <<NodeName(a), NodeAsn(a)>>)]
                        IN  (ea.netname # None /\ eb.netname # None) =>
                                /\ ea.netname = eb.netname
                                /\ <<"xc", ea.netname>> \in DOMAIN regNets']_vars


\* the registered nodes a cross-connect key names
KeyNodes(key) == {p \in regNodes : NodeName(p) = key[1] /\ NodeAsn(p) = key[2]}

\* every pending join of n names a network registered in n's scope or in "ix"
JoinsResolvable(n) ==
    \A i \in 1..Len(pending_nets[n]) :
        \/ <<NodeScope(n), pending_nets[n][i][1]>> \in DOMAIN regNets
        \/ <<"ix", pending_nets[n][i][1]>> \in DOMAIN regNets

\* the network number of an interface address
SubnetBase(a) == a.ip - (a.ip % a.size)

\* C18: when the address a node declared for its peer and the address the peer
\* declared for the node lie in different subnets, configure fails with
\* SubnetMismatch, registers no network and adds no interface for the binding.
C18_SubnetMismatch ==
    [][\A n \in Nodes :
          (/\ calls'[n] = calls[n] + 1
           /\ JoinsResolvable(n)
           /\ last'.outcome # "AddressExhausted"
           /\ Len(xcs[n]) >= 1
           /\ \E p \in KeyNodes(xcs[n][1].key) :
                  \E j \in 1..Len(xcs[p]) :
                      /\ xcs[p][j].key = <<NodeName(n), NodeAsn(n)>>
                      /\ \/ SubnetBase(xcs[p][j].addr) # SubnetBase(xcs[n][1].addr)
                         \/ xcs[p][j].addr.size # xcs[n][1].addr.size)
          => /\ last'.outcome = "SubnetMismatch"
             /\ DOMAIN regNets' = DOMAIN regNets
             /\ Len(interfaces'[n]) = Len(interfaces[n]) + Len(pending_nets[n])
             /\ xcs' = xcs]_vars

\* n1 declared 192.168.0.1/30 for Q, Q declared 192.168.0.5/30 for P, and the
\* only configure call, on n1, was refused
C18_Witness ==
    /\ last = [node |-> "n1", outcome |-> "SubnetMismatch"]
    /\ TotalCalls = 1
    /\ Len(xcs["n1"]) = 1 /\ Len(xcs["n2"]) = 1
    /\ xcs["n1"][1].addr.ip = 1
    /\ xcs["n2"][1].addr.ip = 5
    /\ interfaces["n1"] = <<>>
    /\ regNets = <<>>


\* C19: when the peer a node declared a cross-connect to is registered and
\* never declared a cross-connect back to the node's (name, asn), configure
\* fails with PeerHasNoMatchingXC and registers no network.
C19_PeerHasNoMatchingXC ==
    [][\A n \in Nodes :
          (/\ calls'[n] = calls[n] + 1
           /\ JoinsResolvable(n)
           /\ last'.outcome # "AddressExhausted"
           /\ Len(xcs[n]) >= 1
           /\ KeyNodes(xcs[n][1].key) # {}
           /\ \A p \in KeyNodes(xcs[n][1].key) : \A j \in 1..Len(xcs[p]) :
                  xcs[p][j].key # <<NodeName(n), NodeAsn(n)>>)
          => /\ last'.outcome = "PeerHasNoMatchingXC"
             /\ DOMAIN regNets' = DOMAIN regNets
             /\ Len(interfaces'[n]) = Len(interfaces[n]) + Len(pending_nets[n])
             /\ xcs' = xcs]_vars

\* n1 joined net0 and declared a cross-connect to the registered Q, which
\* declared nothing; the configure call on n1 joined net0 and was refused
C19_Witness ==
    /\ last = [node |-> "n1", outcome |-> "PeerHasNoMatchingXC"]
    /\ TotalCalls = 1
    /\ "n2" \in regNodes
    /\ Len(xcs["n1"]) = 1 /\ xcs["n2"] = <<>>
    /\ Len(pending_nets["n1"]) = 1
    /\ Len(interfaces["n1"]) = 1
    /\ interfaces["n1"][1].net[2] = "net0"


\* C17: the interface configure creates for a cross-connect carries the host
\* address the node itself declared in crossConnect, and the network it is
\* attached to has the subnet of that address as its CIDR, whether the node
\* created the network or joined the one its peer created.
C17_OwnDeclaredAddress ==
    [][\A n \in Nodes :
          (calls'[n] = calls[n] + 1 /\ last'.outcome = "ok") =>
              \A i \in 1..Len(xcs[n]) :
                  LET iface == interfaces'[n][Len(interfaces[n]) + Len(pending_nets[n]) + i]
                  IN  /\ iface.net[1] = "xc"
                      /\ iface.net[2] = xcs'[n][i].netname
                      /\ iface.address = xcs[n][i].addr.ip
                      /\ regNets'[iface.net].prefix.base = SubnetBase(xcs[n][i].addr)
                      /\ regNets'[iface.net].prefix.size = xcs[n][i].addr.size]_vars

\* n1 declared 192.168.0.1/30 and created the network, n2 declared
\* 192.168.0.2/30 and joined it; each interface carries its node's address
C17_Witness ==
    /\ BothConfigured("n1", "n2")
    /\ last = [node |-> "n2", outcome |-> "ok"]
    /\ XcEntry("n1", "n2").addr.ip = 1
    /\ XcEntry("n2", "n1").addr.ip = 2
    /\ interfaces["n1"] = <<[net |-> <<"xc", XcEntry("n1", "n2").netname>>, address |-> 1]>>
    /\ interfaces["n2"] = <<[net |-> <<"xc", XcEntry("n1", "n2").netname>>, address |-> 2]>>


ContentAt(f, h, n, p) == IF p \in DOMAIN f[n] THEN h[f[n][p]].content ELSE <<>>

\* C13: getFile(p) returns the object stored for p, the same at every call and
\* created empty at the first access; setFile(p, c) makes its content c;
\* appendFile(p, c) makes it the previous content followed by c; the files at
\* other paths, and the files of other nodes, keep their objects and contents.
C13_FileAccessors ==
    [][fileCalls' = fileCalls + 1 =>
          LET n == fileLast'.node
              p == fileLast'.path
              c == fileLast'.arg
          IN  /\ p \in DOMAIN files'[n]
              /\ p \in DOMAIN files[n] => files'[n][p] = files[n][p]
              /\ p \notin DOMAIN files[n] => files'[n][p] \notin DOMAIN heap
              /\ heap'[files'[n][p]].path = p
              /\ fileLast'.op = "getFile" =>
                     /\ fileLast'.ret = files'[n][p]
                     /\ ContentAt(files', heap', n, p) = ContentAt(files, heap, n, p)
              /\ fileLast'.op = "setFile" => ContentAt(files', heap', n, p) = c
              /\ fileLast'.op = "appendFile" =>
                     ContentAt(files', heap', n, p) = ContentAt(files, heap, n, p) \o c
              /\ \A m \in Nodes : \A q \in Paths :
                     (m # n \/ q # p) =>
                         /\ q \in DOMAIN files'[m] <=> q \in DOMAIN files[m]
                         /\ q \in DOMAIN files[m] =>
                                /\ files'[m][q] = files[m][q]
                                /\ heap'[files'[m][q]] = heap[files[m][q]]]_vars

\* "/a" was set to "x" and then appended "yz", "/b" was created in between,
\* and getFile("/a") returned the object created first
C13_Witness ==
    /\ fileLast.op = "getFile" /\ fileLast.path = "/a" /\ fileLast.node = "n1"
    /\ fileLast.ret = 1
    /\ fileCalls = 4
    /\ heap[1] = [path |-> "/a", content |-> <<"x", "y", "z">>]
    /\ "/b" \in DOMAIN files["n1"]
    /\ files["n1"]["/b"] = 2


\* C12: crossConnect with the node's own name and ASN is refused with
\* SelfCrossConnect, so no node ever holds a cross-connect entry keyed by its
\* own (name, asn).
C12_NoSelfEntry ==
    \A n \in Nodes : \A i \in 1..Len(xcs[n]) : xcs[n][i].key # <<NodeName(n), NodeAsn(n)>>


\* the registered nodes of a role that a cross-connect key names
KeyNodesOf(role, key) == {p \in KeyNodes(key) : NodeRole(p) = role}

\* the entries a node holds for the key of node n
ReverseEntries(p, n) == {j \in 1..Len(xcs[p]) : xcs[p][j].key = <<NodeName(n), NodeAsn(n)>>}

\* C20: configure resolves the peer of a cross-connect to the router-node
\* registered under the peer's name in the scope of the peer's ASN, to the
\* host-node of that name only when there is no such router-node, and fails
\* with PeerNotFound exactly when neither is registered; the declaration the
\* call then answers to is that of the node so chosen.
C20_RouterBeforeHost ==
    [][\A n \in Nodes :
          (calls'[n] = calls[n] + 1 /\ pending_nets[n] = <<>> /\ Len(xcs[n]) >= 1) =>
              LET key == xcs[n][1].key
                  rn == KeyNodesOf("rnode", key)
                  hn == KeyNodesOf("hnode", key)
                  peer == IF rn # {} THEN CHOOSE p \in rn : TRUE ELSE CHOOSE p \in hn : TRUE
              IN  IF rn = {} /\ hn = {}
                  THEN /\ last'.outcome = "PeerNotFound"
                       /\ interfaces' = interfaces /\ regNets' = regNets /\ xcs' = xcs
                  ELSE IF ReverseEntries(peer, n) = {}
                  THEN last'.outcome = "PeerHasNoMatchingXC"
                  ELSE LET e == xcs[peer][CHOOSE j \in ReverseEntries(peer, n) : TRUE]
                       IN  IF SubnetBase(e.addr) # SubnetBase(xcs[n][1].addr)
                           THEN last'.outcome = "SubnetMismatch"
                           ELSE /\ last'.outcome \in {"ok", "RegisterConflict"}
                                /\ last'.outcome = "ok" =>
                                       IF e.netname # None
                                       THEN xcs'[n][1].netname = e.netname
                                       ELSE regNets'[<<"xc", xcs'[n][1].netname>>].pair = {n, peer}]_vars

\* router-node Q and host-node Q are registered in AS 2; only the host-node
\* declared a cross-connect to P, so the configure call on P, which asks the
\* router-node, was refused
C20_Witness ==
    /\ {"n2", "n3"} \subseteq regNodes
    /\ last = [node |-> "n1", outcome |-> "PeerHasNoMatchingXC"]
    /\ Len(xcs["n1"]) = 1
    /\ Len(xcs["n2"]) = 1
    /\ xcs["n3"] = <<>>
    /\ SubnetBase(xcs["n1"][1].addr) = SubnetBase(xcs["n2"][1].addr)


\* C14: after a configure call on a node ran to the end, the node's interface
\* list holds one interface per pending join, in the order of the joinNetwork
\* calls, followed by one interface per cross-connect key, in the order the
\* keys were first declared, and nothing else.
C14_InterfaceOrder ==
    [][\A n \in Nodes :
          (calls'[n] = calls[n] + 1 /\ last'.outcome = "ok") =>
              /\ Len(interfaces'[n]) = Len(pending_nets[n]) + Len(xcs[n])
              /\ \A i \in 1..Len(pending_nets[n]) :
                     i <= Len(interfaces'[n]) => interfaces'[n][i].net[2] = pending_nets[n][i][1]
              /\ \A i \in 1..Len(xcs[n]) :
                     Len(pending_nets[n]) + i <= Len(interfaces'[n]) =>
                         interfaces'[n][Len(pending_nets[n]) + i].net = <<"xc", xcs'[n][i].netname>>]_vars


\* the pending joins of n whose network is registered neither in n's scope nor
\* in scope "ix"
Unresolvable(n) ==
    {i \in 1..Len(pending_nets[n]) :
        /\ <<NodeScope(n), pending_nets[n][i][1]>> \notin DOMAIN regNets
        /\ <<"ix", pending_nets[n][i][1]>> \notin DOMAIN regNets}

\* C21: when a pending join of a node names a network registered neither in
\* the node's scope nor in scope "ix", configure fails with NetworkNotFound,
\* creates interfaces only for the joins declared before it, and creates no
\* interface for that join nor for anything declared after it.
C21_NetworkNotFound ==
    [][\A n \in Nodes :
          (/\ calls'[n] = calls[n] + 1
           /\ Unresolvable(n) # {}
           /\ last'.outcome # "AddressExhausted")
          => /\ last'.outcome = "NetworkNotFound"
             /\ Len(interfaces'[n]) = Len(interfaces[n]) + Min(Unresolvable(n)) - 1
             /\ DOMAIN regNets' = DOMAIN regNets
             /\ xcs' = xcs]_vars

\* net0 is registered in scope "ix" and net1 in scope "1" only; Q of AS 2
\* declared a join of net0 and then one of net1, and its configure call joined
\* net0 and was refused at net1
C21_Witness ==
    /\ last = [node |-> "n2", outcome |-> "NetworkNotFound"]
    /\ TotalCalls = 1
    /\ DOMAIN regNets = {<<"ix", "net0">>, <<"1", "net1">>}
    /\ Len(pending_nets["n2"]) = 2
    /\ pending_nets["n2"][1][1] = "net0"
    /\ pending_nets["n2"][2][1] = "net1"
    /\ Len(interfaces["n2"]) = 1
    /\ interfaces["n2"][1].net = <<"ix", "net0">>


\* C22: a createNetwork call with an explicit CIDR leaves the subnet sequence
\* of the AS where it was, and the network a createNetwork("auto") call creates
\* has the CIDR 10.<asn>.<k>.0/24, k being the number of "auto" calls made on
\* the AS before it, whatever explicit calls were made in between.
C22_ExplicitLeavesSequence ==
    [][asCalls' = asCalls + 1 =>
           /\ ~asLast'.auto =>
                  /\ subnet_generator' = subnet_generator
                  /\ autoCalls' = autoCalls
                  /\ asLast'.outcome = "ok" => asReg'[asLast'.name].prefix \in ExplicitPrefixes
           /\ (asLast'.auto /\ asLast'.outcome = "ok") =>
                  /\ asReg'[asLast'.name].prefix = Cidr(10, asn, autoCalls, 0, 24)
                  /\ \A k \in DOMAIN asReg : asReg'[k] = asReg[k]]_vars

\* AS 5 created an auto network, then one with the explicit CIDR
\* 100.64.0.0/24, then a second auto network, which got 10.5.1.0/24
C22_Witness ==
    /\ asn = 5
    /\ asLast = [auto |-> TRUE, name |-> 3, outcome |-> "ok"]
    /\ asCalls = 3 /\ autoCalls = 2
    /\ DOMAIN asReg = {1, 2, 3}
    /\ asReg[1].prefix = Cidr(10, 5, 0, 0, 24)
    /\ asReg[2].prefix = Cidr(100, 64, 0, 0, 24)
    /\ asReg[3].prefix = Cidr(10, 5, 1, 0, 24)

====
